---- MODULE Spec2Model ----
(***************************************************************************)
(* A model of src/app.py, the Streamlit script of the AI Research Paper    *)
(* Analyzer: the cache files of the working directory, the per-session     *)
(* st.session_state["pdf_cache"], the fetch handler load_pdfs, the loader  *)
(* load_cached_pdfs, analyze_pdf_text and the "Analyze PDFs" loop.         *)
(*                                                                         *)
(* Strings (file names, document names, texts, prompts, file contents) are *)
(* sequences of Unicode code points, so that str.endswith, the slice       *)
(* [:4000], json.dump and json.load are computed character by character.   *)
(***************************************************************************)
EXTENDS Integers, Sequences, FiniteSets, TLC

VARIABLES
    files,                \* the working directory: file name -> content
    sessions,             \* the browser sessions connected to the app
    runs,                 \* per session: script runs started (two-session scenario)
    pc,                   \* per session: position of its script run
    selected_cache_file,  \* per session: the selectbox value ("" for None)
    pdf_cache,            \* per session: st.session_state["pdf_cache"]
    folder_id,            \* per session: the text_input value of this run
    button,               \* per session: the button clicked for this run
    user_prompt,          \* per session: the text_area value of this run
    pdf_files,            \* per session: load_pdfs' local listing
    pdf_texts,            \* per session: load_pdfs' local mapping
    i,                    \* per session: index of the running for loop
    file_name,            \* per session: the document name being analysed
    drive_calls,          \* per session: Drive requests issued in this run
    calls,                \* per session: analyze_pdf_text invocations of this run
    results,              \* per session: analyses rendered in this run
    warnings,             \* per session: st.warning messages of this run
    outcome,              \* per session: how the run's handler ended
    last_saved            \* history: per file, the fetch whose save closed last

vars == <<files, sessions, runs, pc, selected_cache_file, pdf_cache, folder_id,
          button, user_prompt, pdf_files, pdf_texts, i, file_name, drive_calls,
          calls,
          results, warnings, outcome, last_saved>>

-----------------------------------------------------------------------------
(* Bounds of the model.                                                    *)

\* longest folder listing the Drive query returns
MaxDocs == 2

\* script runs per session in the two-session specification
MaxRaceRuns == 2

\* how far beyond (and below) the slice length the analysed texts reach
MaxOver == 2

-----------------------------------------------------------------------------
(* Program constants.                                                      *)

\* extracted_text[:4000]
SliceLen == 4000

\* ".json"
Suffix == <<46, 106, 115, 111, 110>>

\* "No text found in this PDF."
Sentinel ==
    <<78, 111, 32, 116, 101, 120, 116, 32, 102, 111, 117, 110, 100, 32, 105,
      110, 32, 116, 104, 105, 115, 32, 80, 68, 70, 46>>

\* "Analyze this research paper based on: "
SystemPrefix ==
    <<65, 110, 97, 108, 121, 122, 101, 32, 116, 104, 105, 115, 32, 114, 101,
      115, 101, 97, 114, 99, 104, 32, 112, 97, 112, 101, 114, 32, 98, 97, 115,
      101, 100, 32, 111, 110, 58, 32>>

-----------------------------------------------------------------------------
(* The values the inputs are drawn from.                                   *)

AllSessions == {"s1", "s2"}

\* "a.json"
CacheFileA == <<97, 46, 106, 115, 111, 110>>

\* "notes.txt"
OtherFile == <<110, 111, 116, 101, 115, 46, 116, 120, 116>>

\* document names: "A" and "B\" (a name json.dump has to escape)
NameA == <<65>>

NameB == <<66, 92>>

DocNames == {NameA, NameB}

\* "C": a document of an older fetch, which no listing returns any more
NameC == <<67>>

\* extracted texts: "", then x " \ newline, then e-acute U+1F600 a U+0001 DEL
TextEmpty == <<>>

TextEsc == <<120, 34, 92, 10>>

TextUni == <<233, 128512, 97, 1, 127>>

Texts == {TextEmpty, TextEsc, TextUni}

\* the empty folder id (falsy) and one that is entered
NoFolder == <<>>

FolderIds == {<<102>>}

\* prompts: "" and "q"
Prompts == {<<>>, <<113>>}

\* what the completion service answers: an error, or a message content
ReplyError == [kind |-> "error", content |-> <<>>]

Replies ==
    {ReplyError, [kind |-> "ok", content |-> <<>>], [kind |-> "ok", content |-> <<114>>]}

Min(a, b) == IF a <= b THEN a ELSE b

Max(a, b) == IF a >= b THEN a ELSE b

-----------------------------------------------------------------------------
(* A Python dict of str -> str: a sequence of [k, v] entries with distinct *)
(* keys, in insertion order.                                               *)

EmptyDict == <<>>

Keys(d) == {d[j].k : j \in 1..Len(d)}

KeyIndex(d, key) == CHOOSE j \in 1..Len(d) : d[j].k = key

\* d.get(key, default)
DictGet(d, key, default) ==
    IF key \in Keys(d) THEN d[KeyIndex(d, key)].v ELSE default

\* d[key] = value: a present key keeps its position and takes the new value
DictSet(d, key, value) ==
    IF key \in Keys(d)
    THEN [d EXCEPT ![KeyIndex(d, key)] = [k |-> key, v |-> value]]
    ELSE Append(d, [k |-> key, v |-> value])

\* dict equality: the same keys with the same values, in any order
DictEq(d, e) ==
    /\ Keys(d) = Keys(e)
    /\ \A key \in Keys(d) : DictGet(d, key, <<>>) = DictGet(e, key, <<>>)

-----------------------------------------------------------------------------
(* json.dump(pdf_texts, f, indent=4): ensure_ascii escaping of every       *)
(* string, items on lines of their own indented by four spaces, ": "       *)
(* between key and value, "," between items, "{}" for the empty dict.      *)

HexDigit(d) == IF d < 10 THEN 48 + d ELSE 87 + d

Hex4(n) ==
    <<HexDigit((n \div 4096) % 16), HexDigit((n \div 256) % 16),
      HexDigit((n \div 16) % 16), HexDigit(n % 16)>>

\* "\uXXXX"
UEscape(n) == <<92, 117>> \o Hex4(n)

\* EscapeChar without the escape of the backslash
EscapeCharNoBackslash(c) ==
    IF c = 92 THEN <<92>>
    ELSE IF c = 34 THEN <<92, 34>>
    ELSE IF c = 8 THEN <<92, 98>>
    ELSE IF c = 12 THEN <<92, 102>>
    ELSE IF c = 10 THEN <<92, 110>>
    ELSE IF c = 13 THEN <<92, 114>>
    ELSE IF c = 9 THEN <<92, 116>>
    ELSE IF c >= 32 /\ c <= 126 THEN <<c>>
    ELSE IF c < 65536 THEN UEscape(c)
    ELSE UEscape(55296 + (((c - 65536) \div 1024) % 1024))
             \o UEscape(56320 + ((c - 65536) % 1024))

EscapeChar(c) ==
    IF c = 92 THEN <<92, 92>>
    ELSE IF c = 34 THEN <<92, 34>>
    ELSE IF c = 8 THEN <<92, 98>>
    ELSE IF c = 12 THEN <<92, 102>>
    ELSE IF c = 10 THEN <<92, 110>>
    ELSE IF c = 13 THEN <<92, 114>>
    ELSE IF c = 9 THEN <<92, 116>>
    ELSE IF c >= 32 /\ c <= 126 THEN <<c>>
    ELSE IF c < 65536 THEN UEscape(c)
    ELSE UEscape(55296 + (((c - 65536) \div 1024) % 1024))
             \o UEscape(56320 + ((c - 65536) % 1024))

RECURSIVE EscapeFrom(_, _)
EscapeFrom(s, j) ==
    IF j > Len(s) THEN <<>> ELSE EscapeChar(s[j]) \o EscapeFrom(s, j + 1)

EncodeString(s) == <<34>> \o EscapeFrom(s, 1) \o <<34>>

RECURSIVE DumpItems(_, _)
DumpItems(d, j) ==
    IF j > Len(d) THEN <<>>
    ELSE (IF j > 1 THEN <<44>> ELSE <<>>)
             \o <<10, 32, 32, 32, 32>>
             \o EncodeString(d[j].k) \o <<58, 32>> \o EncodeString(d[j].v)
             \o DumpItems(d, j + 1)

JsonDump(d) ==
    IF Len(d) = 0 THEN <<123, 125>>
    ELSE <<123>> \o DumpItems(d, 1) \o <<10, 125>>

-----------------------------------------------------------------------------
(* json.load(f): the decoder on a file content. A result is                *)
(* [ok, val, pos]; ok = FALSE is JSONDecodeError. Values other than        *)
(* strings never occur in a file this program writes and are rejected.     *)

Fail == [ok |-> FALSE, val |-> <<>>, pos |-> 0]

At(s, p) == IF p >= 1 /\ p <= Len(s) THEN s[p] ELSE -1

IsWs(c) == c \in {32, 9, 10, 13}

RECURSIVE SkipWs(_, _)
SkipWs(s, p) == IF IsWs(At(s, p)) THEN SkipWs(s, p + 1) ELSE p

HexVal(c) ==
    IF c >= 48 /\ c <= 57 THEN c - 48
    ELSE IF c >= 97 /\ c <= 102 THEN c - 87
    ELSE IF c >= 65 /\ c <= 70 THEN c - 55
    ELSE -1

\* the four hex digits at p..p+3, or -1
DecodeU(s, p) ==
    IF \E q \in p..(p + 3) : HexVal(At(s, q)) < 0 THEN -1
    ELSE 4096 * HexVal(s[p]) + 256 * HexVal(s[p + 1])
             + 16 * HexVal(s[p + 2]) + HexVal(s[p + 3])

Unescape(c) ==
    IF c = 34 THEN 34
    ELSE IF c = 92 THEN 92
    ELSE IF c = 47 THEN 47
    ELSE IF c = 98 THEN 8
    ELSE IF c = 102 THEN 12
    ELSE IF c = 110 THEN 10
    ELSE IF c = 114 THEN 13
    ELSE IF c = 116 THEN 9
    ELSE -1

\* scanstring: p is the position after the opening quote
RECURSIVE ScanString(_, _, _)
ScanString(s, p, acc) ==
    LET c == At(s, p) IN
    IF c = 34 THEN [ok |-> TRUE, val |-> acc, pos |-> p + 1]
    ELSE IF c < 32 THEN Fail                   \* end of input, control character
    ELSE IF c # 92 THEN ScanString(s, p + 1, Append(acc, c))
    ELSE LET e == At(s, p + 1) IN
         IF e # 117
         THEN IF Unescape(e) < 0 THEN Fail
              ELSE ScanString(s, p + 2, Append(acc, Unescape(e)))
         ELSE LET u == DecodeU(s, p + 2) IN
              IF u < 0 THEN Fail
              ELSE IF /\ u >= 55296 /\ u <= 56319
                      /\ At(s, p + 6) = 92 /\ At(s, p + 7) = 117
                      /\ DecodeU(s, p + 8) >= 56320 /\ DecodeU(s, p + 8) <= 57343
                   THEN ScanString(s, p + 12,
                            Append(acc, 65536 + (u - 55296) * 1024
                                            + (DecodeU(s, p + 8) - 56320)))
                   ELSE ScanString(s, p + 6, Append(acc, u))

\* JSONObject: p is the position of the next key's opening quote
RECURSIVE ScanPairs(_, _, _)
ScanPairs(s, p, acc) ==
    IF At(s, p) # 34 THEN Fail
    ELSE LET key == ScanString(s, p + 1, <<>>) IN
         IF ~key.ok THEN Fail
         ELSE LET colon == SkipWs(s, key.pos) IN
              IF At(s, colon) # 58 THEN Fail
              ELSE LET start == SkipWs(s, colon + 1) IN
                   IF At(s, start) # 34 THEN Fail
                   ELSE LET value == ScanString(s, start + 1, <<>>) IN
                        IF ~value.ok THEN Fail
                        ELSE LET after == SkipWs(s, value.pos)
                                 dict == DictSet(acc, key.val, value.val)
                             IN IF At(s, after) = 125
                                THEN [ok |-> TRUE, val |-> dict, pos |-> after + 1]
                                ELSE IF At(s, after) = 44
                                THEN ScanPairs(s, SkipWs(s, after + 1), dict)
                                ELSE Fail

ScanObject(s, p) ==
    IF At(s, p) # 123 THEN Fail
    ELSE LET first == SkipWs(s, p + 1) IN
         IF At(s, first) = 125
         THEN [ok |-> TRUE, val |-> EmptyDict, pos |-> first + 1]
         ELSE ScanPairs(s, first, EmptyDict)

\* the whole document: one object, then nothing but white space
JsonLoad(s) ==
    LET obj == ScanObject(s, SkipWs(s, 1)) IN
    IF ~obj.ok THEN Fail
    ELSE IF SkipWs(s, obj.pos) # Len(s) + 1 THEN Fail
    ELSE obj

-----------------------------------------------------------------------------
(* The pieces of the handlers.                                             *)

\* str.endswith
EndsWith(name, suffix) ==
    /\ Len(name) >= Len(suffix)
    /\ SubSeq(name, Len(name) - Len(suffix) + 1, Len(name)) = suffix

\* get_json_files() on a directory
GetJsonFiles(dir) == {f \in DOMAIN dir : EndsWith(f, Suffix)}

\* None, and "not selected_cache_file"
NoFile == <<>>

NotSelected(sel) == sel = NoFile

\* session_state without the key "pdf_cache", and with it
Absent == [present |-> FALSE, map |-> EmptyDict]

Present(d) == [present |-> TRUE, map |-> d]

\* '"pdf_cache" not in st.session_state or not st.session_state["pdf_cache"]'
NoPdfsLoaded(cache) == ~cache.present \/ Len(cache.map) = 0

\* Truncate for a file opened without truncation ("r+" in place of "w")
NoTruncate(dir, name) ==
    [f \in DOMAIN dir \cup {name} |-> IF f \in DOMAIN dir THEN dir[f] ELSE <<>>]

\* open(selected_cache_file, "w"): the file is created or truncated
Truncate(dir, name) ==
    [f \in DOMAIN dir \cup {name} |-> IF f = name THEN <<>> ELSE dir[f]]

\* a write of data at offset off of a file holding content
WriteAt(content, off, data) ==
    [j \in 1..Max(Len(content), off + Len(data)) |->
        IF j > off /\ j <= off + Len(data) THEN data[j - off]
        ELSE IF j <= Len(content) THEN content[j]
        ELSE 0]

\* NewCache for a fetch that updates the old cache instead of replacing it
RECURSIVE MergeDict(_, _, _)
MergeDict(d, e, j) ==
    IF j > Len(e) THEN d ELSE MergeDict(DictSet(d, e[j].k, e[j].v), e, j + 1)

NewCacheMerged(old, texts) == Present(MergeDict(old.map, texts, 1))

\* what load_pdfs stores in session_state after the save
NewCache(old, texts) == Present(texts)

\* SliceText cutting one character late
SliceTextOffByOne(text) == SubSeq(text, 1, Min(Len(text), SliceLen + 1))

\* extracted_text[:4000]
SliceText(text) == SubSeq(text, 1, Min(Len(text), SliceLen))

\* return values of analyze_pdf_text: None, a string, or a raised error
RetNone == [kind |-> "none", val |-> <<>>]

RetStr(str) == [kind |-> "str", val |-> str]

RetRaise == [kind |-> "raise", val |-> <<>>]

\* "if analysis:"
Truthy(ret) == ret.kind = "str" /\ Len(ret.val) > 0

\* the messages of client.chat.completions.create
Request(prompt, text) ==
    [system |-> SystemPrefix \o prompt, user |-> SliceText(text)]

\* AnalyzePdfText without the test "if not extracted_text"
AnalyzePdfTextNoEmptyCheck(cache, name, prompt, reply) ==
    IF NoPdfsLoaded(cache)
    THEN [sent |-> <<>>, ret |-> RetNone, warn |-> <<"no_pdfs_loaded">>]
    ELSE [sent |-> <<Request(prompt, DictGet(cache.map, name, <<>>))>>,
          ret |-> IF reply.kind = "ok" THEN RetStr(reply.content) ELSE RetRaise,
          warn |-> <<>>]

\* analyze_pdf_text(file_name, prompt), the service answering reply:
\* the requests it sends (none or one), what it returns, what it warns
AnalyzePdfText(cache, name, prompt, reply) ==
    IF NoPdfsLoaded(cache)
    THEN [sent |-> <<>>, ret |-> RetNone, warn |-> <<"no_pdfs_loaded">>]
    ELSE LET extracted_text == DictGet(cache.map, name, <<>>) IN
         IF Len(extracted_text) = 0
         THEN [sent |-> <<>>, ret |-> RetStr(Sentinel), warn |-> <<>>]
         ELSE [sent |-> <<Request(prompt, extracted_text)>>,
               ret |-> IF reply.kind = "ok" THEN RetStr(reply.content) ELSE RetRaise,
               warn |-> <<>>]

\* LoopName for a loop that walks the mapping backwards
LoopNameReversed(cache, j) == cache.map[Len(cache.map) - j + 1].k

\* the name the for loop of the Analyze handler visits at step j
LoopName(cache, j) == cache.map[j].k

\* where an unhandled exception leaves the script run
AfterException == "idle"

\* AfterAnalysisError for a loop that catches the error and goes on
AfterAnalysisErrorContinues(more) == IF more THEN "analyze" ELSE "idle"

\* where the Analyze loop goes after an analysis that raised
AfterAnalysisError(more) == AfterException

NoSave == [saved |-> FALSE, names |-> {}, texts |-> EmptyDict, by |-> ""]

-----------------------------------------------------------------------------
(* Initial states.                                                         *)

\* folder listings: the documents of a folder, each with the text its PDF yields
Docs == [name : DocNames, text : Texts]

Listings == UNION {[1..n -> Docs] : n \in 0..MaxDocs}

\* what a cache file found at start-up holds
InitialDicts ==
    {EmptyDict,
     <<[k |-> NameA, v |-> TextEsc], [k |-> NameC, v |-> TextUni],
       [k |-> NameB, v |-> TextEsc]>>}

\* a working directory without cache files, and those with one
NoCacheDir == (OtherFile :> <<104, 105>>)

InitialDirs ==
    {NoCacheDir} \cup {NoCacheDir @@ (CacheFileA :> JsonDump(d)) : d \in InitialDicts}

InitSession ==
    /\ runs = [s \in AllSessions |-> 0]
    /\ selected_cache_file = [s \in AllSessions |-> NoFile]
    /\ pdf_cache = [s \in AllSessions |-> Absent]
    /\ folder_id = [s \in AllSessions |-> NoFolder]
    /\ button = [s \in AllSessions |-> "none"]
    /\ user_prompt = [s \in AllSessions |-> <<>>]
    /\ pdf_files = [s \in AllSessions |-> <<>>]
    /\ pdf_texts = [s \in AllSessions |-> EmptyDict]
    /\ i = [s \in AllSessions |-> 0]
    /\ file_name = [s \in AllSessions |-> <<>>]
    /\ drive_calls = [s \in AllSessions |-> 0]
    /\ calls = [s \in AllSessions |-> <<>>]
    /\ results = [s \in AllSessions |-> <<>>]
    /\ warnings = [s \in AllSessions |-> <<>>]
    /\ outcome = [s \in AllSessions |-> "none"]

Init ==
    /\ files \in InitialDirs
    /\ sessions = {"s1"}
    /\ pc = [s \in AllSessions |-> "idle"]
    /\ last_saved = [f \in DOMAIN files |-> NoSave]
    /\ InitSession

-----------------------------------------------------------------------------
(* One script run: lines 44-49, then load_cached_pdfs, then the buttons.   *)

\* a user interaction starts a run: the widgets take their values
Rerun(s) ==
    /\ pc[s] = "idle"
    /\ LET json_files == GetJsonFiles(files) IN
       /\ \E sel \in (IF json_files = {} THEN {NoFile} ELSE json_files) :
              selected_cache_file' = [selected_cache_file EXCEPT ![s] = sel]
       /\ warnings' = [warnings EXCEPT ![s] =
              IF json_files = {} THEN <<"no_cache_files_found">> ELSE <<>>]
    /\ \E b \in {"none", "load", "analyze"} : button' = [button EXCEPT ![s] = b]
    /\ \E f \in FolderIds \cup {NoFolder} : folder_id' = [folder_id EXCEPT ![s] = f]
    /\ \E p \in Prompts : user_prompt' = [user_prompt EXCEPT ![s] = p]
    /\ pc' = [pc EXCEPT ![s] = "load"]
    /\ pdf_files' = [pdf_files EXCEPT ![s] = <<>>]
    /\ pdf_texts' = [pdf_texts EXCEPT ![s] = EmptyDict]
    /\ i' = [i EXCEPT ![s] = 0]
    /\ file_name' = [file_name EXCEPT ![s] = <<>>]
    /\ drive_calls' = [drive_calls EXCEPT ![s] = 0]
    /\ calls' = [calls EXCEPT ![s] = <<>>]
    /\ results' = [results EXCEPT ![s] = <<>>]
    /\ outcome' = [outcome EXCEPT ![s] = "none"]
    /\ UNCHANGED <<files, sessions, pdf_cache, last_saved>>

\* load_cached_pdfs() on session cache old: the cache it leaves, what it
\* warns, whether json.load raised
LoadCached(old, dir, sel) ==
    LET created == IF old.present THEN old ELSE Present(EmptyDict) IN
    IF NotSelected(sel)
    THEN [cache |-> old, warn |-> <<"select_cache_file_first">>, raised |-> FALSE]
    ELSE IF sel \notin DOMAIN dir
    THEN [cache |-> created, warn |-> <<>>, raised |-> FALSE]
    ELSE LET loaded == JsonLoad(dir[sel]) IN
         IF loaded.ok
         THEN [cache |-> Present(loaded.val), warn |-> <<>>, raised |-> FALSE]
         ELSE [cache |-> created, warn |-> <<>>, raised |-> TRUE]

\* line 65: the call of load_cached_pdfs() in every script run
LoadCachedPdfs(s) ==
    /\ pc[s] = "load"
    /\ LET r == LoadCached(pdf_cache[s], files, selected_cache_file[s]) IN
       /\ pdf_cache' = [pdf_cache EXCEPT ![s] = r.cache]
       /\ warnings' = [warnings EXCEPT ![s] = @ \o r.warn]
       /\ pc' = [pc EXCEPT ![s] = IF r.raised THEN AfterException ELSE "buttons"]
       /\ outcome' = [outcome EXCEPT ![s] = IF r.raised THEN "error" ELSE @]
    /\ UNCHANGED <<files, sessions, selected_cache_file, folder_id, button,
                   user_prompt, pdf_files, pdf_texts, i, file_name, drive_calls,
                   calls, results, last_saved>>

\* no button was clicked: the run ends after the widgets are drawn
NoClick(s) ==
    /\ pc[s] = "buttons"
    /\ button[s] = "none"
    /\ pc' = [pc EXCEPT ![s] = "idle"]
    /\ UNCHANGED <<files, sessions, selected_cache_file, pdf_cache, folder_id,
                   button, user_prompt, pdf_files, pdf_texts, i, file_name,
                   drive_calls, calls, results, warnings, outcome, last_saved>>

\* FetchAllowed without the test of the selected cache file
FetchAlways(sel) == TRUE

\* whether load_pdfs goes on to the listing
FetchAllowed(sel) == ~NotSelected(sel)

\* the "Load PDFs" button, up to the first Drive request of load_pdfs
ClickLoadPdfs(s) ==
    /\ pc[s] = "buttons"
    /\ button[s] = "load"
    /\ IF folder_id[s] = NoFolder
       THEN /\ warnings' = [warnings EXCEPT ![s] = Append(@, "enter_folder_id")]
            /\ pc' = [pc EXCEPT ![s] = "idle"]
            /\ outcome' = [outcome EXCEPT ![s] = "skipped"]
       ELSE IF ~FetchAllowed(selected_cache_file[s])
       THEN /\ warnings' = [warnings EXCEPT ![s] = Append(@, "select_cache_file_first")]
            /\ pc' = [pc EXCEPT ![s] = "idle"]
            /\ outcome' = [outcome EXCEPT ![s] = "skipped"]
       ELSE /\ pc' = [pc EXCEPT ![s] = "list"]
            /\ UNCHANGED <<warnings, outcome>>
    /\ UNCHANGED <<files, sessions, selected_cache_file, pdf_cache, folder_id,
                   button, user_prompt, pdf_files, pdf_texts, i, file_name,
                   drive_calls, calls, results, last_saved>>

\* AfterFetchError for a fetch that saves what it has extracted so far
AfterFetchErrorSaves == "open"

\* where load_pdfs is left by a listing or extraction that raised
AfterFetchError == AfterException

\* list_pdfs_from_folder(folder_id): one of the listings the folder may
\* answer with, or an error of the request
ListPdfs(s, answers) ==
    /\ pc[s] = "list"
    /\ drive_calls' = [drive_calls EXCEPT ![s] = @ + 1]
    /\ \/ \E listing \in answers :
              /\ pdf_files' = [pdf_files EXCEPT ![s] = listing]
              /\ pc' = [pc EXCEPT ![s] = IF Len(listing) > 0 THEN "extract" ELSE "open"]
              /\ i' = [i EXCEPT ![s] = 1]
              /\ UNCHANGED outcome
       \/ /\ pc' = [pc EXCEPT ![s] = AfterFetchError]
          /\ outcome' = [outcome EXCEPT ![s] = "error"]
          /\ UNCHANGED <<pdf_files, i>>
    /\ UNCHANGED <<files, sessions, selected_cache_file, pdf_cache, folder_id,
                   button, user_prompt, pdf_texts, file_name, calls, results,
                   warnings, last_saved>>

\* one pass of the for loop of load_pdfs: extract_text_from_drive_pdf, then
\* pdf_texts[pdf["name"]] = text; or an error of the download or of fitz
ExtractText(s) ==
    /\ pc[s] = "extract"
    /\ drive_calls' = [drive_calls EXCEPT ![s] = @ + 1]
    /\ \/ /\ pdf_texts' = [pdf_texts EXCEPT ![s] =
                 DictSet(@, pdf_files[s][i[s]].name, pdf_files[s][i[s]].text)]
          /\ i' = [i EXCEPT ![s] = @ + 1]
          /\ pc' = [pc EXCEPT ![s] = IF i[s] < Len(pdf_files[s]) THEN "extract" ELSE "open"]
          /\ UNCHANGED outcome
       \/ /\ pc' = [pc EXCEPT ![s] = AfterFetchError]
          /\ outcome' = [outcome EXCEPT ![s] = "error"]
          /\ UNCHANGED <<pdf_texts, i>>
    /\ UNCHANGED <<files, sessions, selected_cache_file, pdf_cache, folder_id,
                   button, user_prompt, pdf_files, file_name, calls, results,
                   warnings, last_saved>>

\* open(selected_cache_file, "w"): truncates; the handle starts at offset 0
OpenForWrite(s) ==
    /\ pc[s] = "open"
    /\ files' = Truncate(files, selected_cache_file[s])
    /\ pc' = [pc EXCEPT ![s] = "write"]
    /\ UNCHANGED <<sessions, selected_cache_file, pdf_cache, folder_id, button,
                   user_prompt, pdf_files, pdf_texts, i, file_name, drive_calls,
                   calls, results, warnings, outcome, last_saved>>

\* json.dump and the end of the with block: the buffered text, shorter than
\* the buffer, reaches the file in one write at the handle's offset
WriteClose(s) ==
    /\ pc[s] = "write"
    /\ LET sel == selected_cache_file[s] IN
       /\ files' = [files EXCEPT ![sel] = WriteAt(@, 0, JsonDump(pdf_texts[s]))]
       /\ last_saved' = [last_saved EXCEPT ![sel] =
              [saved |-> TRUE,
               names |-> {pdf_files[s][j].name : j \in 1..Len(pdf_files[s])},
               texts |-> pdf_texts[s],
               by |-> s]]
    /\ pc' = [pc EXCEPT ![s] = "assign"]
    /\ UNCHANGED <<sessions, selected_cache_file, pdf_cache, folder_id, button,
                   user_prompt, pdf_files, pdf_texts, i, file_name, drive_calls,
                   calls, results, warnings, outcome>>

\* st.session_state["pdf_cache"] = pdf_texts, and the success message
AssignCache(s) ==
    /\ pc[s] = "assign"
    /\ pdf_cache' = [pdf_cache EXCEPT ![s] = NewCache(@, pdf_texts[s])]
    /\ outcome' = [outcome EXCEPT ![s] = "fetched"]
    /\ pc' = [pc EXCEPT ![s] = "idle"]
    /\ UNCHANGED <<files, sessions, selected_cache_file, folder_id, button,
                   user_prompt, pdf_files, pdf_texts, i, file_name, drive_calls,
                   calls, results, warnings, last_saved>>

\* the "Analyze PDFs" button, up to the for loop
ClickAnalyze(s) ==
    /\ pc[s] = "buttons"
    /\ button[s] = "analyze"
    /\ IF NoPdfsLoaded(pdf_cache[s])
       THEN /\ warnings' = [warnings EXCEPT ![s] = Append(@, "no_pdfs_loaded")]
            /\ pc' = [pc EXCEPT ![s] = "idle"]
            /\ outcome' = [outcome EXCEPT ![s] = "skipped"]
            /\ UNCHANGED i
       ELSE /\ pc' = [pc EXCEPT ![s] = "analyze"]
            /\ i' = [i EXCEPT ![s] = 1]
            /\ UNCHANGED <<warnings, outcome>>
    /\ UNCHANGED <<files, sessions, selected_cache_file, pdf_cache, folder_id,
                   button, user_prompt, pdf_files, pdf_texts, file_name,
                   drive_calls, calls, results, last_saved>>

\* the record of one analyze_pdf_text invocation
CallRecord(name, prompt, r) ==
    [file_name |-> name, prompt |-> prompt, sent |-> r.sent, ret |-> r.ret]

\* one pass of the for loop of the Analyze handler
AnalyzeNext(s) ==
    /\ pc[s] = "analyze"
    /\ \E reply \in Replies :
          LET name == LoopName(pdf_cache[s], i[s])
              r == AnalyzePdfText(pdf_cache[s], name, user_prompt[s], reply)
              more == i[s] < Len(pdf_cache[s].map)
          IN /\ file_name' = [file_name EXCEPT ![s] = name]
             /\ calls' = [calls EXCEPT ![s] = Append(@, CallRecord(name, user_prompt[s], r))]
             /\ warnings' = [warnings EXCEPT ![s] = @ \o r.warn]
             /\ i' = [i EXCEPT ![s] = @ + 1]
             /\ IF r.ret.kind = "raise"
                THEN /\ pc' = [pc EXCEPT ![s] = AfterAnalysisError(more)]
                     /\ outcome' = [outcome EXCEPT ![s] = "error"]
                     /\ UNCHANGED results
                ELSE /\ results' = [results EXCEPT ![s] =
                            IF Truthy(r.ret)
                            THEN Append(@, [file_name |-> name, analysis |-> r.ret.val])
                            ELSE @]
                     /\ pc' = [pc EXCEPT ![s] = IF more THEN "analyze" ELSE "idle"]
                     /\ outcome' = [outcome EXCEPT ![s] =
                            IF more \/ outcome[s] = "error" THEN outcome[s] ELSE "analyzed"]
    /\ UNCHANGED <<files, sessions, selected_cache_file, pdf_cache, folder_id,
                   button, user_prompt, pdf_files, pdf_texts, drive_calls,
                   last_saved>>

Next ==
    \/ \E s \in sessions : Rerun(s) /\ UNCHANGED runs
    \/ \E s \in sessions : LoadCachedPdfs(s) /\ UNCHANGED runs
    \/ \E s \in sessions : NoClick(s) /\ UNCHANGED runs
    \/ \E s \in sessions : ClickLoadPdfs(s) /\ UNCHANGED runs
    \/ \E s \in sessions : ListPdfs(s, Listings) /\ UNCHANGED runs
    \/ \E s \in sessions : ExtractText(s) /\ UNCHANGED runs
    \/ \E s \in sessions : OpenForWrite(s) /\ UNCHANGED runs
    \/ \E s \in sessions : WriteClose(s) /\ UNCHANGED runs
    \/ \E s \in sessions : AssignCache(s) /\ UNCHANGED runs
    \/ \E s \in sessions : ClickAnalyze(s) /\ UNCHANGED runs
    \/ \E s \in sessions : AnalyzeNext(s) /\ UNCHANGED runs

Spec == Init /\ [][Next]_vars

-----------------------------------------------------------------------------
(* Two sessions on one cache file: each fetches in its first run and only  *)
(* reloads in its later runs. The folder answers with listings whose       *)
(* dumps differ in length.                                                 *)

RaceListings ==
    {<<>>,
     <<[name |-> NameA, text |-> TextEsc]>>,
     <<[name |-> NameB, text |-> TextUni], [name |-> NameA, text |-> TextEmpty]>>}

InitRace ==
    /\ files = NoCacheDir @@ (CacheFileA :> JsonDump(EmptyDict))
    /\ sessions = AllSessions
    /\ pc = [s \in AllSessions |-> "idle"]
    /\ last_saved = [f \in DOMAIN files |-> NoSave]
    /\ InitSession

RaceRerun(s) ==
    /\ runs[s] < MaxRaceRuns
    /\ Rerun(s)
    /\ button'[s] = (IF runs[s] = 0 THEN "load" ELSE "none")
    /\ folder_id'[s] \in FolderIds
    /\ user_prompt'[s] = <<>>
    /\ runs' = [runs EXCEPT ![s] = @ + 1]

NextRace ==
    \/ \E s \in sessions : RaceRerun(s)
    \/ \E s \in sessions : LoadCachedPdfs(s) /\ UNCHANGED runs
    \/ \E s \in sessions : NoClick(s) /\ UNCHANGED runs
    \/ \E s \in sessions : ClickLoadPdfs(s) /\ UNCHANGED runs
    \/ \E s \in sessions : ListPdfs(s, RaceListings) /\ UNCHANGED runs
    \/ \E s \in sessions : ExtractText(s) /\ UNCHANGED runs
    \/ \E s \in sessions : OpenForWrite(s) /\ UNCHANGED runs
    \/ \E s \in sessions : WriteClose(s) /\ UNCHANGED runs
    \/ \E s \in sessions : AssignCache(s) /\ UNCHANGED runs

SpecRace == InitRace /\ [][NextRace]_vars

-----------------------------------------------------------------------------
(* analyze_pdf_text on its own: every cache state, name and prompt, with   *)
(* texts on both sides of the slice length.                                *)

LongText(n) == [j \in 1..n |-> 97 + (j % 26)]

AnalyzeLengths == {0, 1} \cup ((SliceLen - MaxOver)..(SliceLen + MaxOver))

AnalyzeTexts == {LongText(n) : n \in AnalyzeLengths}

AnalyzeCaches ==
    {Absent, Present(EmptyDict)}
        \cup {Present(<<[k |-> n, v |-> t]>>) : n \in DocNames, t \in AnalyzeTexts}
        \cup {Present(<<[k |-> NameA, v |-> t], [k |-> NameB, v |-> u]>>) :
                  t \in AnalyzeTexts, u \in AnalyzeTexts}

InitAnalyze ==
    /\ files = NoCacheDir
    /\ sessions = {"s1"}
    /\ last_saved = [f \in DOMAIN files |-> NoSave]
    /\ runs = [s \in AllSessions |-> 0]
    /\ selected_cache_file = [s \in AllSessions |-> NoFile]
    /\ pc = [s \in AllSessions |-> IF s \in sessions THEN "call" ELSE "idle"]
    /\ \E cache \in AnalyzeCaches : pdf_cache = [s \in AllSessions |-> cache]
    /\ \E name \in DocNames \cup {NameC} : file_name = [s \in AllSessions |-> name]
    /\ \E prompt \in Prompts : user_prompt = [s \in AllSessions |-> prompt]
    /\ folder_id = [s \in AllSessions |-> NoFolder]
    /\ button = [s \in AllSessions |-> "none"]
    /\ pdf_files = [s \in AllSessions |-> <<>>]
    /\ pdf_texts = [s \in AllSessions |-> EmptyDict]
    /\ i = [s \in AllSessions |-> 0]
    /\ drive_calls = [s \in AllSessions |-> 0]
    /\ calls = [s \in AllSessions |-> <<>>]
    /\ results = [s \in AllSessions |-> <<>>]
    /\ warnings = [s \in AllSessions |-> <<>>]
    /\ outcome = [s \in AllSessions |-> "none"]

\* one call analyze_pdf_text(file_name, user_prompt)
CallAnalyze(s) ==
    /\ pc[s] = "call"
    /\ \E reply \in Replies :
          LET r == AnalyzePdfText(pdf_cache[s], file_name[s], user_prompt[s], reply)
          IN /\ calls' = [calls EXCEPT ![s] =
                    Append(@, CallRecord(file_name[s], user_prompt[s], r))]
             /\ warnings' = [warnings EXCEPT ![s] = @ \o r.warn]
             /\ outcome' = [outcome EXCEPT ![s] =
                    IF r.ret.kind = "raise" THEN "error" ELSE "returned"]
    /\ pc' = [pc EXCEPT ![s] = "returned"]
    /\ UNCHANGED <<files, sessions, selected_cache_file, pdf_cache, folder_id,
                   button, user_prompt, pdf_files, pdf_texts, i, file_name,
                   drive_calls, results, last_saved>>

NextAnalyze == \E s \in sessions : CallAnalyze(s) /\ UNCHANGED runs

SpecAnalyze == InitAnalyze /\ [][NextAnalyze]_vars

-----------------------------------------------------------------------------
(* Properties.                                                             *)

ListingNames(listing) == {listing[j].name : j \in 1..Len(listing)}

\* the text of the last document of the listing that bears the name
LastText(listing, name) ==
    listing[CHOOSE j \in 1..Len(listing) :
                /\ listing[j].name = name
                /\ \A m \in (j + 1)..Len(listing) : listing[m].name # name].text

\* the analyses the Analyze handler renders for a sequence of invocations
RECURSIVE Rendered(_)
Rendered(cs) ==
    IF Len(cs) = 0 THEN <<>>
    ELSE LET c == cs[Len(cs)]
             before == Rendered(SubSeq(cs, 1, Len(cs) - 1))
         IN IF c.ret.kind = "str" /\ c.ret.val # <<>>
            THEN Append(before, [file_name |-> c.file_name, analysis |-> c.ret.val])
            ELSE before

\* session caches a load may find
PriorCaches ==
    {Absent, Present(EmptyDict), Present(<<[k |-> NameC, v |-> TextUni]>>),
     Present(<<[k |-> NameA, v |-> TextUni], [k |-> NameB, v |-> TextEmpty]>>)}

NoSaveRunning == \A s \in sessions : pc[s] # "write"

\* C1: once a fetch has saved its result to a cache file, load_cached_pdfs of
\* that file sets the session cache to a mapping with the same keys and the
\* same values as the saved one, whatever the cache held before the load
\* (at the call of load_cached_pdfs: for every cache the session may hold).
RoundTrip ==
    \A f \in DOMAIN files :
        last_saved[f].saved
        => /\ \A s \in sessions :
                  (pc[s] = "load" /\ selected_cache_file[s] = f)
                  => \A old \in PriorCaches :
                         LET r == LoadCached(old, files, f) IN
                         /\ ~r.raised
                         /\ r.cache.present
                         /\ DictEq(r.cache.map, last_saved[f].texts)
           /\ \A s \in sessions :
                  (pc[s] = "buttons" /\ selected_cache_file[s] = f)
                  => /\ pdf_cache[s].present
                     /\ DictEq(pdf_cache[s].map, last_saved[f].texts)

\* a run after a fetch of two documents has reloaded what the fetch saved
RoundTripWitness ==
    \E s \in sessions :
        /\ pc[s] = "buttons"
        /\ outcome[s] = "none"
        /\ selected_cache_file[s] \in DOMAIN files
        /\ last_saved[selected_cache_file[s]].saved
        /\ last_saved[selected_cache_file[s]].texts =
               <<[k |-> NameB, v |-> TextUni], [k |-> NameA, v |-> TextEsc]>>
        /\ pdf_cache[s] = Present(last_saved[selected_cache_file[s]].texts)

\* C2: after a successful fetch the session cache and the selected file hold
\* exactly the mapping of this listing (its names, each with the text of the
\* last document bearing it), nothing of the earlier cache; a listing
\* without documents leaves the empty mapping in both.
FetchReplaces ==
    \A s \in sessions :
        (pc[s] = "idle" /\ outcome[s] = "fetched")
        => LET listing == pdf_files[s]
               onDisk == JsonLoad(files[selected_cache_file[s]])
           IN /\ pdf_cache[s].present
              /\ Keys(pdf_cache[s].map) = ListingNames(listing)
              /\ \A name \in ListingNames(listing) :
                     DictGet(pdf_cache[s].map, name, <<>>) = LastText(listing, name)
              /\ onDisk.ok
              /\ DictEq(onDisk.val, pdf_cache[s].map)
              /\ Len(listing) = 0
                     => /\ pdf_cache[s].map = EmptyDict
                        /\ files[selected_cache_file[s]] = <<123, 125>>

\* a fetch of a folder without PDFs has ended
FetchReplacesWitness ==
    \E s \in sessions :
        /\ pc[s] = "idle"
        /\ outcome[s] = "fetched"
        /\ pdf_files[s] = <<>>
        /\ drive_calls[s] = 1
        /\ pdf_cache[s] = Present(EmptyDict)

\* the single invocation of analyze_pdf_text a call has recorded
Returned(s) == pc[s] = "returned" /\ Len(calls[s]) = 1

CachedText(s) == DictGet(pdf_cache[s].map, file_name[s], <<>>)

\* C3 as stated: for every name and every state of the cache, a name whose
\* cached text is empty or missing gets the sentinel and no request is sent.
SentinelForEveryCache ==
    \A s \in sessions :
        (Returned(s) /\ CachedText(s) = <<>>)
        => /\ calls[s][1].ret = RetStr(Sentinel)
           /\ calls[s][1].sent = <<>>

\* C3 amended: with a non-empty cache, a name whose cached text is empty or
\* missing gets the sentinel and no request is sent; with an absent or empty
\* cache the call warns and returns None, also without a request.
SentinelForLoadedCache ==
    \A s \in sessions :
        (Returned(s) /\ CachedText(s) = <<>>)
        => /\ calls[s][1].sent = <<>>
           /\ IF pdf_cache[s].present /\ pdf_cache[s].map # EmptyDict
              THEN calls[s][1].ret = RetStr(Sentinel) /\ warnings[s] = <<>>
              ELSE calls[s][1].ret = RetNone /\ warnings[s] = <<"no_pdfs_loaded">>

\* a name missing from a non-empty cache got the sentinel
SentinelWitness ==
    \E s \in sessions :
        /\ Returned(s)
        /\ pdf_cache[s].present
        /\ Len(pdf_cache[s].map) = 2
        /\ file_name[s] \notin Keys(pdf_cache[s].map)
        /\ calls[s][1].ret = RetStr(Sentinel)

\* C4: for a cached text of length L > 0 the user message of the request is
\* the first min(L, 4000) characters of the text: at most 4000 characters,
\* and the whole text when L <= 4000.
SliceIsPrefix ==
    \A s \in sessions :
        (Returned(s) /\ ~NoPdfsLoaded(pdf_cache[s]) /\ CachedText(s) # <<>>)
        => LET text == CachedText(s)
               sent == calls[s][1].sent
           IN /\ Len(sent) = 1
              /\ Len(sent[1].user) <= 4000
              /\ Len(sent[1].user) = (IF Len(text) <= 4000 THEN Len(text) ELSE 4000)
              /\ \A m \in 1..Len(sent[1].user) : sent[1].user[m] = text[m]
              /\ Len(text) <= 4000 => sent[1].user = text

\* a text longer than 4000 characters was sent as its first 4000
SliceWitness ==
    \E s \in sessions :
        /\ Returned(s)
        /\ Len(CachedText(s)) > 4000
        /\ Len(calls[s][1].sent) = 1
        /\ Len(calls[s][1].sent[1].user) = 4000

\* a batch that has started its loop, or has ended it
InBatch(s) ==
    \/ pc[s] = "analyze"
    \/ pc[s] = "idle" /\ outcome[s] = "analyzed"
    \/ pc[s] = "idle" /\ outcome[s] = "error" /\ calls[s] # <<>>

\* the request a document's invocation has to carry: none for an empty text
ExpectedSent(text, prompt) ==
    IF text = <<>> THEN <<>>
    ELSE <<[system |-> SystemPrefix \o prompt, user |-> text]>>

\* the invocations so far are those of the first documents of the cache, in
\* its order, each with the text cached under its own name and this prompt
InvocationsInOrder(s) ==
    LET d == pdf_cache[s].map IN
    /\ Len(calls[s]) = i[s] - 1
    /\ Len(calls[s]) <= Len(d)
    /\ \A j \in 1..Len(calls[s]) :
           /\ calls[s][j].file_name = d[j].k
           /\ calls[s][j].prompt = user_prompt[s]
           /\ calls[s][j].sent = ExpectedSent(d[j].v, user_prompt[s])
    /\ (pc[s] = "idle" /\ outcome[s] = "analyzed") => Len(calls[s]) = Len(d)

\* C5 as stated: the Analyzer is invoked once per cached name, in the order
\* of the mapping, with that name's text and this batch's prompt, and a
\* batch without a failed call renders one result per document.
BatchOneResultPerDocument ==
    \A s \in sessions :
        InBatch(s)
        => /\ InvocationsInOrder(s)
           /\ (pc[s] = "idle" /\ outcome[s] = "analyzed")
                  => Len(results[s]) = Len(pdf_cache[s].map)

\* C5 amended: as stated, but a result is rendered only for the documents
\* whose analysis is a non-empty string (the sentinel included): a completion
\* with empty content renders nothing.
BatchInOrder ==
    \A s \in sessions :
        InBatch(s)
        => /\ InvocationsInOrder(s)
           /\ results[s] = Rendered(calls[s])
           /\ \A j \in 1..Len(calls[s]) :
                  (calls[s][j].sent = <<>>) => calls[s][j].ret = RetStr(Sentinel)

\* a batch over two documents with distinct texts rendered two results
BatchWitness ==
    \E s \in sessions :
        /\ pc[s] = "idle"
        /\ outcome[s] = "analyzed"
        /\ pdf_cache[s].map = <<[k |-> NameB, v |-> TextEsc], [k |-> NameA, v |-> TextUni]>>
        /\ user_prompt[s] = <<113>>
        /\ Len(results[s]) = 2

\* C6: the keys of a cache file that was fetched into, and of a session
\* cache loaded from it, are the names of the listing of the last fetch that
\* saved into the file, after any sequence of fetches, loads and analyses.
KeysFollowLastFetch ==
    \A f \in DOMAIN files :
        last_saved[f].saved
        => /\ NoSaveRunning
                  => LET onDisk == JsonLoad(files[f]) IN
                     onDisk.ok /\ Keys(onDisk.val) = last_saved[f].names
           /\ \A s \in sessions :
                  (selected_cache_file[s] = f /\ pc[s] # "assign")
                  => /\ pdf_cache[s].present
                     /\ Keys(pdf_cache[s].map) = last_saved[f].names

\* a failed fetch has followed a fetch that saved two names
KeysWitness ==
    \E s \in sessions :
        /\ pc[s] = "idle"
        /\ outcome[s] = "error"
        /\ drive_calls[s] = 2
        /\ Len(pdf_files[s]) = 2
        /\ selected_cache_file[s] \in DOMAIN files
        /\ last_saved[selected_cache_file[s]].saved
        /\ last_saved[selected_cache_file[s]].names = {NameA, NameB}

\* what a step of load_pdfs before its save may do
FailedFetchStep ==
    \A s \in AllSessions :
        pc[s] \in {"list", "extract"}
        => /\ files' = files
           /\ pdf_cache'[s] = pdf_cache[s]
           /\ last_saved' = last_saved
           /\ outcome'[s] = "error" => pc'[s] = "idle"

\* C7: a step of load_pdfs before the save (the listing, an extraction)
\* changes neither the files nor the session cache, and when it raises the
\* action ends there: nothing of the text extracted so far is saved.
FailedFetchLeavesCache == [][FailedFetchStep]_vars

\* the second extraction of a fetch has failed
FailedFetchWitness ==
    \E s \in sessions :
        /\ pc[s] = "idle"
        /\ outcome[s] = "error"
        /\ drive_calls[s] = 3
        /\ pdf_texts[s] = <<[k |-> NameB, v |-> TextUni]>>
        /\ pdf_cache[s].present
        /\ NameB \notin Keys(pdf_cache[s].map)

\* a batch that a completion error has ended
BatchFailed(s) == pc[s] = "idle" /\ outcome[s] = "error" /\ calls[s] # <<>>

\* the failing invocation is the last one: no later document was requested,
\* and the results of the earlier ones are there
BatchAbortState ==
    \A s \in sessions :
        /\ (outcome[s] = "error" /\ calls[s] # <<>>) => pc[s] = "idle"
        /\ BatchFailed(s)
               => LET n == Len(calls[s]) IN
                  /\ calls[s][n].ret = RetRaise
                  /\ \A j \in 1..(n - 1) : calls[s][j].ret # RetRaise
                  /\ \A j \in 1..n : calls[s][j].file_name = pdf_cache[s].map[j].k
                  /\ results[s] = Rendered(SubSeq(calls[s], 1, n - 1))

BatchStep ==
    \A s \in AllSessions :
        pc[s] = "analyze" => files' = files /\ pdf_cache'[s] = pdf_cache[s]

\* C8: a completion error on one document ends the batch there: no request
\* for a later document, the earlier results stay, and the batch changes
\* neither the session cache nor the files.
BatchAborts == []BatchAbortState /\ [][BatchStep]_vars

\* the second of three documents failed after the first was rendered
BatchAbortWitness ==
    \E s \in sessions :
        /\ BatchFailed(s)
        /\ Len(pdf_cache[s].map) = 3
        /\ Len(calls[s]) = 2
        /\ Len(results[s]) = 1

\* a session whose fetch has ended
FetchEnded(s) == runs[s] >= 2 \/ (runs[s] = 1 /\ pc[s] = "idle")

\* C9: once the fetches of both sessions into the file have ended, the file
\* holds the complete dump of the session whose save ended last, and a load
\* that follows yields that mapping.
RaceLastWriterWins ==
    \A f \in DOMAIN files :
        (last_saved[f].saved /\ \A s \in sessions : FetchEnded(s))
        => /\ files[f] = JsonDump(last_saved[f].texts)
           /\ \A s \in sessions :
                  LET r == LoadCached(pdf_cache[s], files, f) IN
                  ~r.raised /\ r.cache = Present(last_saved[f].texts)

====
